---- MODULE Spec2Model ----
(***************************************************************************)
(* Model of scripts/generate_sprites.py: palette-swapping of a pixel       *)
(* template.  Colours are <<r, g, b>>, pixels <<r, g, b, a>>.  The float   *)
(* arithmetic of colorsys is modelled by exact rationals <<n, d>> (d > 0,  *)
(* lowest terms); rounding to a channel is Python's round-half-to-even.    *)
(* For the target colours of TargetPool the rational results equal the     *)
(* colours the Python code computes.  Lightness ties are exact ties here;  *)
(* Python compares the floats (max + min) / 2.0.                           *)
(***************************************************************************)
EXTENDS Integers, Sequences, FiniteSets, TLC

VARIABLES pc,          \* position in main, or in the function run on its own
          template,    \* raster stored at args.template, or NoFile
          rawChars,    \* parsed JSON of args.characters, or NoFile
          characters,  \* result of load_characters: sequence of palettes
          dirCreated,  \* os.makedirs(args.output) has run
          outFiles,    \* char index -> raster saved in the output directory
          idx,         \* index of the character the loop is at
          palette,     \* palette of the current character
          cmap,        \* colour map of the current character
          unmapped,    \* unmapped set of the last generate_sprite
          size,        \* value returned by the last generate_sprite
          residual,    \* residual dict of the last verify_output
          ok,          \* value returned by the last verify_output
          all_ok,      \* main's aggregate status
          exitStatus,  \* process exit status, -1 while running
          log,         \* history: the per-character steps main has completed
          intended,    \* the map the palette asks for, when cmap is given
          colors,      \* argument of group_base_hls run on its own
          base         \* result of group_base_hls run on its own

vars == <<pc, template, rawChars, characters, dirCreated, outFiles, idx,
          palette, cmap, unmapped, size, residual, ok, all_ok, exitStatus,
          log, intended, colors, base>>

\* a path holds no file (<<>>) or one file (<<content>>)
NoFile == <<>>
File(content) == <<content>>
EmptyMap == [x \in {} |-> x]
\* f as a table of its values (the same function, evaluated eagerly)
Tabulate(f) == f @@ EmptyMap

-----------------------------------------------------------------------------
(* Bounds of the model *)

MaxTargets == 2
MaxPixels == 2
MaxChars == 2
MaxGroup == 4

-----------------------------------------------------------------------------
(* Exact rational arithmetic standing for Python floats *)

Abs(x) == IF x < 0 THEN -x ELSE x

RECURSIVE Gcd(_, _)
Gcd(a, b) == IF b = 0 THEN a ELSE Gcd(b, a % b)

Q(n, d) ==
  LET s == IF d < 0 THEN -1 ELSE 1
      g == Gcd(Abs(n), Abs(d))
  IN  <<(s * n) \div g, (s * d) \div g>>

QInt(k) == <<k, 1>>
\* numerators of x and y over their least common denominator
QOver(x, y) ==
  LET g == Gcd(x[2], y[2])
  IN  <<x[1] * (y[2] \div g), y[1] * (x[2] \div g), (x[2] \div g) * y[2]>>
QAdd(x, y) == LET c == QOver(x, y) IN Q(c[1] + c[2], c[3])
QSub(x, y) == LET c == QOver(x, y) IN Q(c[1] - c[2], c[3])
QMul(x, y) ==
  LET a == Q(x[1], y[2])
      b == Q(y[1], x[2])
  IN  <<a[1] * b[1], a[2] * b[2]>>
QDiv(x, y) == QMul(x, Q(y[2], y[1]))
QLt(x, y) == LET c == QOver(x, y) IN c[1] < c[2]
QLe(x, y) == LET c == QOver(x, y) IN c[1] <= c[2]
QFloor(x) == x[1] \div x[2]
\* x % 1.0
QMod1(x) == QSub(x, QInt(QFloor(x)))
\* int(round(x)): round half to even
QRound(x) ==
  LET q == x[1] \div x[2]
      r == x[1] % x[2]
  IN  IF 2 * r < x[2] THEN q
      ELSE IF 2 * r > x[2] THEN q + 1
      ELSE IF q % 2 = 0 THEN q ELSE q + 1

MaxI(a, b) == IF a >= b THEN a ELSE b
MinI(a, b) == IF a <= b THEN a ELSE b

-----------------------------------------------------------------------------
(* Source colour groups *)

SRC_GROUPS ==
  [ hair |-> << <<57, 22, 36>>, <<50, 25, 29>>, <<52, 31, 32>> >>,
    shirt |-> << <<7, 28, 46>>, <<15, 64, 106>>, <<17, 73, 120>>,
                 <<17, 100, 169>> >>,
    pants |-> << <<109, 71, 38>>, <<111, 74, 42>>, <<143, 100, 57>>,
                 <<177, 134, 73>> >>,
    skin |-> << <<132, 82, 58>>, <<197, 137, 110>>, <<226, 152, 120>>,
                <<233, 163, 132>>, <<251, 191, 151>>, <<255, 216, 178>> >>,
    shoes |-> << <<53, 44, 39>>, <<53, 53, 53>>, <<64, 54, 50>>,
                 <<73, 62, 56>>, <<79, 79, 79>>, <<89, 89, 89>>,
                 <<159, 159, 159>> >>,
    eyes |-> << <<255, 255, 255>> >>,
    outline |-> << <<0, 0, 0>>, <<4, 6, 5>>, <<25, 25, 25>>, <<26, 26, 26>> >>,
    accessory |-> << <<162, 170, 175>>, <<225, 227, 233>> >> ]

\* iteration order of the SRC_GROUPS dict (insertion order)
GroupOrder ==
  <<"hair", "shirt", "pants", "skin", "shoes", "eyes", "outline", "accessory">>

Range(s) == {s[i] : i \in 1..Len(s)}

-----------------------------------------------------------------------------
(* Colour math helpers *)

HexDigits ==
  [c \in {"0", "1", "2", "3", "4", "5", "6", "7", "8", "9", "A", "B", "C",
          "D", "E", "F", "a", "b", "c", "d", "e", "f"} |->
     CASE c = "0" -> 0 [] c = "1" -> 1 [] c = "2" -> 2 [] c = "3" -> 3
       [] c = "4" -> 4 [] c = "5" -> 5 [] c = "6" -> 6 [] c = "7" -> 7
       [] c = "8" -> 8 [] c = "9" -> 9
       [] c \in {"A", "a"} -> 10 [] c \in {"B", "b"} -> 11
       [] c \in {"C", "c"} -> 12 [] c \in {"D", "d"} -> 13
       [] c \in {"E", "e"} -> 14 [] c \in {"F", "f"} -> 15]

RECURSIVE LStrip(_)
LStrip(s) == IF Len(s) > 0 /\ Head(s) = "#" THEN LStrip(Tail(s)) ELSE s

\* a string is a sequence of one-character strings
hex_to_rgb(str) ==
  LET h == LStrip(str)
      byte(i) == 16 * HexDigits[h[i]] + HexDigits[h[i + 1]]
  IN  <<byte(1), byte(3), byte(5)>>

Max3(c) == MaxI(c[1], MaxI(c[2], c[3]))
Min3(c) == MinI(c[1], MinI(c[2], c[3]))

\* colorsys.rgb_to_hls(r / 255.0, g / 255.0, b / 255.0), as <<h, l, s>>
rgb_to_hls(c) ==
  LET maxc == Max3(c)
      minc == Min3(c)
      sumc == maxc + minc
      rangec == maxc - minc
      l == Q(sumc, 510)
  IN  IF minc = maxc THEN <<QInt(0), l, QInt(0)>>
      ELSE
        LET s == IF QLe(l, Q(1, 2)) THEN Q(rangec, sumc)
                 ELSE Q(rangec, 510 - sumc)
            rc == Q(maxc - c[1], rangec)
            gc == Q(maxc - c[2], rangec)
            bc == Q(maxc - c[3], rangec)
            h == IF c[1] = maxc THEN QSub(bc, gc)
                 ELSE IF c[2] = maxc THEN QSub(QAdd(QInt(2), rc), bc)
                 ELSE QSub(QAdd(QInt(4), gc), rc)
        IN  <<QMod1(QDiv(h, QInt(6))), l, s>>

\* colorsys._v
HueToChannel(m1, m2, hue0) ==
  LET hue == QMod1(hue0)
  IN  IF QLt(hue, Q(1, 6))
        THEN QAdd(m1, QMul(QMul(QSub(m2, m1), hue), QInt(6)))
      ELSE IF QLt(hue, Q(1, 2)) THEN m2
      ELSE IF QLt(hue, Q(2, 3))
        THEN QAdd(m1, QMul(QMul(QSub(m2, m1), QSub(Q(2, 3), hue)), QInt(6)))
      ELSE m1

ToChannel(v) == MaxI(0, MinI(255, QRound(QMul(v, QInt(255)))))

hls_to_rgb(h, l, s) ==
  IF s = QInt(0) THEN <<ToChannel(l), ToChannel(l), ToChannel(l)>>
  ELSE
    LET m2 == IF QLe(l, Q(1, 2)) THEN QMul(l, QAdd(QInt(1), s))
              ELSE QSub(QAdd(l, s), QMul(l, s))
        m1 == QSub(QMul(QInt(2), l), m2)
    IN  <<ToChannel(HueToChannel(m1, m2, QAdd(h, Q(1, 3)))),
          ToChannel(HueToChannel(m1, m2, h)),
          ToChannel(HueToChannel(m1, m2, QSub(h, Q(1, 3))))>>

clamp01(v) == IF QLt(v, QInt(0)) THEN QInt(0)
              ELSE IF QLt(QInt(1), v) THEN QInt(1) ELSE v

\* list.sort(key = lightness): stable insertion into an ascending list
RECURSIVE InsertByLightness(_, _)
InsertByLightness(sorted, x) ==
  IF sorted = <<>> THEN <<x>>
  ELSE IF QLt(x[2], Head(sorted)[2]) THEN <<x>> \o sorted
  ELSE <<Head(sorted)>> \o InsertByLightness(Tail(sorted), x)

RECURSIVE SortByLightness(_)
SortByLightness(hls_list) ==
  IF hls_list = <<>> THEN <<>>
  ELSE InsertByLightness(SortByLightness(SubSeq(hls_list, 1, Len(hls_list) - 1)),
                         hls_list[Len(hls_list)])

\* the lower median: position n / 2 for even n
MedianIndexLower(n) == IF n % 2 = 0 THEN n \div 2 ELSE n \div 2 + 1
\* hls_list[len(hls_list) // 2], as a 1-based position
MedianIndex(n) == n \div 2 + 1

group_base_hls(cs) ==
  LET hls_list == SortByLightness([i \in 1..Len(cs) |-> rgb_to_hls(cs[i])])
  IN  hls_list[MedianIndex(Len(hls_list))]

recolor(src_rgb, src_base_hls, tgt_base_hls) ==
  LET src == rgb_to_hls(src_rgb)
      sl == src[2]
      ss == src[3]
      sbl == src_base_hls[2]
      sbs == src_base_hls[3]
      th == tgt_base_hls[1]
      tl == tgt_base_hls[2]
      ts == tgt_base_hls[3]
      new_l == IF QLt(Q(1, 100), sbl) THEN clamp01(QMul(tl, QDiv(sl, sbl)))
               ELSE tl
      new_s == IF QLt(Q(5, 100), sbs) THEN clamp01(QMul(ts, QDiv(ss, sbs)))
               ELSE ts
  IN  hls_to_rgb(th, new_l, new_s)

-----------------------------------------------------------------------------
(* Bounded target colours *)

TargetPool ==
  << <<0, 255, 0>>, <<50, 25, 29>>, <<53, 53, 53>>, <<0, 0, 0>>,
     <<17, 73, 120>>, <<255, 255, 255>> >>
Targets == {TargetPool[i] : i \in 1..MinI(MaxTargets, Len(TargetPool))}
MemoTargets == Range(TargetPool)

-----------------------------------------------------------------------------
(* Build colour map *)

IdentityGroups == {"outline", "accessory"}
\* a default other than the eyes source colour
EyesDefaultBlack == <<0, 0, 0>>
EyesDefault == <<255, 255, 255>>
color_keys == {"hair", "eyes", "skin", "shirt", "pants", "shoes"}

\* lines 191-195: every colour of the group recoloured towards tgt
RecolorGroup(group, tgt) ==
  LET src_colors == SRC_GROUPS[group]
      src_base == group_base_hls(src_colors)
      tgt_base == rgb_to_hls(tgt)
  IN  Tabulate([c \in Range(src_colors) |-> recolor(c, src_base, tgt_base)])

\* RecolorGroup tabulated once for the target colours the inputs hold
RecolorMemo ==
  Tabulate([x \in (color_keys \ {"eyes"}) \X MemoTargets |->
              RecolorGroup(x[1], x[2])])
Recolored(group, tgt) ==
  IF <<group, tgt>> \in DOMAIN RecolorMemo THEN RecolorMemo[<<group, tgt>>]
  ELSE RecolorGroup(group, tgt)

\* a group missing from the palette gets no entry
GroupEntriesSkipAbsent(pal, group) ==
  LET S == Range(SRC_GROUPS[group])
  IN  IF group \in IdentityGroups THEN [c \in S |-> c]
      ELSE IF group = "eyes"
        THEN LET tgt == IF "eyes" \in DOMAIN pal THEN pal["eyes"]
                        ELSE EyesDefault
             IN  [c \in S |-> tgt]
      ELSE IF group \notin DOMAIN pal THEN EmptyMap
      ELSE Recolored(group, pal[group])

\* outline and accessory handled like the recolourable groups
GroupEntriesNoIdentity(pal, group) ==
  LET S == Range(SRC_GROUPS[group])
  IN  IF group = "eyes"
        THEN LET tgt == IF "eyes" \in DOMAIN pal THEN pal["eyes"]
                        ELSE EyesDefault
             IN  [c \in S |-> tgt]
      ELSE IF group \notin DOMAIN pal THEN [c \in S |-> c]
      ELSE Recolored(group, pal[group])

\* the entries build_color_map writes for one group of SRC_GROUPS
GroupEntries(pal, group) ==
  LET S == Range(SRC_GROUPS[group])
  IN  IF group \in IdentityGroups THEN [c \in S |-> c]
      ELSE IF group = "eyes"
        THEN LET tgt == IF "eyes" \in DOMAIN pal THEN pal["eyes"]
                        ELSE EyesDefault
             IN  [c \in S |-> tgt]
      ELSE IF group \notin DOMAIN pal THEN [c \in S |-> c]
      ELSE Recolored(group, pal[group])

\* the loop over SRC_GROUPS.items(): a later assignment overwrites an earlier
RECURSIVE BuildFrom(_, _, _)
BuildFrom(pal, k, acc) ==
  IF k > Len(GroupOrder) THEN acc
  ELSE BuildFrom(pal, k + 1, GroupEntries(pal, GroupOrder[k]) @@ acc)

build_color_map(pal) == BuildFrom(pal, 1, EmptyMap)

-----------------------------------------------------------------------------
(* Rasters: [w, h, px] with px[<<x, y>>] = <<r, g, b, a>> *)

Positions(w, h) == (0..(w - 1)) \X (0..(h - 1))
Key(p) == <<p[1], p[2], p[3]>>

\* the loop body without the "if a == 0: continue"
RenderPixelNoSkip(p, cm) ==
  IF Key(p) \in DOMAIN cm
    THEN <<cm[Key(p)][1], cm[Key(p)][2], cm[Key(p)][3], p[4]>>
  ELSE p

\* the body of generate_sprite's loop for one pixel
RenderPixel(p, cm) ==
  IF p[4] = 0 THEN p
  ELSE IF Key(p) \in DOMAIN cm
    THEN <<cm[Key(p)][1], cm[Key(p)][2], cm[Key(p)][3], p[4]>>
  ELSE p

\* transparent pixels reported as unmapped too
IsUnmappedAnyAlpha(p, cm) == Key(p) \notin DOMAIN cm
\* a pixel generate_sprite adds to the unmapped set
IsUnmapped(p, cm) == p[4] # 0 /\ Key(p) \notin DOMAIN cm

generate_sprite(tpl, cm) ==
  LET pos == Positions(tpl.w, tpl.h)
  IN  [img |-> [w |-> tpl.w, h |-> tpl.h,
                px |-> [q \in pos |-> RenderPixel(tpl.px[q], cm)]],
       unmapped |-> {Key(tpl.px[q]) : q \in {r \in pos : IsUnmapped(tpl.px[r], cm)}},
       size |-> <<tpl.w, tpl.h>>]

\* "if mapped and mapped != c"
ExpectedToChange(c, cm) == c \in DOMAIN cm /\ cm[c] # c

\* src_colors and target_colors of verify_output, before the subtraction
VerifySources(cm) ==
  UNION {{c \in Range(SRC_GROUPS[g]) : ExpectedToChange(c, cm)} :
           g \in Range(GroupOrder) \ IdentityGroups}
VerifyTargets(cm) == {cm[c] : c \in VerifySources(cm)}

\* without "src_colors -= target_colors"
VerifySrcColorsNoSubtract(cm) == VerifySources(cm)
\* src_colors -= target_colors
VerifySrcColors(cm) == VerifySources(cm) \ VerifyTargets(cm)

\* without the "if a == 0: continue" of the verifying scan
IsResidualAnyAlpha(p, src) == Key(p) \in src
\* a pixel verify_output counts
IsResidual(p, src) == p[4] # 0 /\ Key(p) \in src

verify_output(img, cm) ==
  LET src == VerifySrcColors(cm)
      pos == Positions(img.w, img.h)
      hit == {q \in pos : IsResidual(img.px[q], src)}
      res == [c \in {Key(img.px[q]) : q \in hit} |->
                Cardinality({q \in hit : Key(img.px[q]) = c})]
  IN  [ok |-> (DOMAIN res = {}), residual |-> res]

-----------------------------------------------------------------------------
(* load_characters *)

\* data is one character's JSON object: key -> string
LoadPalette(data) ==
  [k \in DOMAIN data |-> IF k \in color_keys THEN hex_to_rgb(data[k])
                         ELSE data[k]]

\* char_id is the position of the character in the JSON object
load_characters(raw) == [i \in 1..Len(raw) |-> LoadPalette(raw[i])]

-----------------------------------------------------------------------------
(* Bounded inputs *)


\* palettes given to build_color_map: any keys, "outline" among them
PaletteKeys == color_keys \cup {"outline"}
MapPalettes == UNION {[K -> Targets] : K \in SUBSET PaletteKeys}

PixelPool ==
  << <<57, 22, 36, 255>>, <<57, 22, 36, 0>>, <<50, 25, 29, 128>>,
     <<0, 0, 0, 255>>, <<1, 2, 3, 128>>, <<255, 255, 255, 255>> >>
Dims == {d \in (1..MaxPixels) \X (1..MaxPixels) : d[1] * d[2] <= MaxPixels}
Rasters ==
  UNION {{[w |-> d[1], h |-> d[2], px |-> f] :
            f \in [Positions(d[1], d[2]) -> Range(PixelPool)]} : d \in Dims}

\* JSON character objects; a string is a sequence of characters
RawPool ==
  << EmptyMap,
     [name |-> <<"A", "n", "n">>,
      hair |-> <<"#", "0", "0", "F", "F", "0", "0">>],
     [hair |-> <<"#", "3", "2", "1", "9", "1", "d">>,
      eyes |-> <<"#", "3", "5", "3", "5", "3", "5">>,
      outline |-> <<"#", "F", "F", "0", "0", "0", "0">>],
     [skin |-> <<"1", "1", "4", "9", "7", "8">>,
      shoes |-> <<"#", "0", "0", "0", "0", "0", "0">>,
      pants |-> <<"#", "#", "0", "0", "f", "f", "0", "0">>] >>
RawInputs == UNION {[1..n -> Range(RawPool)] : n \in 0..MaxChars}

\* colour lists given to group_base_hls
BaseColours ==
  {<<57, 22, 36>>, <<22, 57, 36>>, <<50, 25, 29>>, <<52, 31, 32>>,
   <<17, 73, 120>>}
BaseInputs ==
  UNION {[1..n -> BaseColours] : n \in 1..MaxGroup}
    \cup {SRC_GROUPS[g] : g \in Range(GroupOrder)}

\* colour maps given to generate_sprite directly
ArbColours == {<<57, 22, 36>>, <<1, 2, 3>>, <<0, 0, 0>>}
ArbitraryMaps == UNION {[S -> ArbColours] : S \in SUBSET ArbColours}
SpritePalettes == {[k \in {"hair"} |-> t] : t \in Targets}
\* a map that keeps hair colour c although the palette asks for a new hair
BrokenMap(pal, c) == [build_color_map(pal) EXCEPT ![c] = c]

-----------------------------------------------------------------------------
(* main *)

\* the check passes whether or not the file is there
PathExistsAlways(path) == TRUE
\* os.path.exists(path)
PathExists(path) == Len(path) = 1
\* open(path) / Image.open(path) succeeds
CanOpen(path) == Len(path) = 1

\* all_ok = ok: an earlier failure is forgotten
NextAllOkLast(a, o) == o
\* all_ok = all_ok and ok
NextAllOk(a, o) == a /\ o

Init ==
  /\ pc = "start"
  /\ template \in {NoFile} \cup {File(r) : r \in Rasters}
  /\ rawChars \in {NoFile} \cup {File(c) : c \in RawInputs}
  /\ characters = <<>>
  /\ dirCreated = FALSE /\ outFiles = EmptyMap /\ idx = 0
  /\ palette = EmptyMap /\ cmap = EmptyMap /\ unmapped = {}
  /\ size = <<0, 0>> /\ residual = EmptyMap /\ ok = TRUE /\ all_ok = TRUE
  /\ exitStatus = -1 /\ log = <<>> /\ intended = EmptyMap
  /\ colors = <<>> /\ base = <<>>

TemplateMissing ==
  /\ pc = "start" /\ ~PathExists(template)
  /\ exitStatus' = 1 /\ pc' = "done"
  /\ UNCHANGED <<template, rawChars, characters, dirCreated, outFiles, idx,
                 palette, cmap, unmapped, size, residual, ok, all_ok, log,
                 intended, colors, base>>

TemplateFound ==
  /\ pc = "start" /\ PathExists(template)
  /\ pc' = "check_characters"
  /\ UNCHANGED <<template, rawChars, characters, dirCreated, outFiles, idx,
                 palette, cmap, unmapped, size, residual, ok, all_ok,
                 exitStatus, log, intended, colors, base>>

CharactersMissing ==
  /\ pc = "check_characters" /\ ~PathExists(rawChars)
  /\ exitStatus' = 1 /\ pc' = "done"
  /\ UNCHANGED <<template, rawChars, characters, dirCreated, outFiles, idx,
                 palette, cmap, unmapped, size, residual, ok, all_ok, log,
                 intended, colors, base>>

CharactersFound ==
  /\ pc = "check_characters" /\ PathExists(rawChars)
  /\ pc' = "load"
  /\ UNCHANGED <<template, rawChars, characters, dirCreated, outFiles, idx,
                 palette, cmap, unmapped, size, residual, ok, all_ok,
                 exitStatus, log, intended, colors, base>>

\* load_characters, os.makedirs, all_ok = True; open() of a missing file raises
Load ==
  /\ pc = "load"
  /\ IF CanOpen(rawChars)
       THEN /\ characters' = load_characters(rawChars[1])
            /\ dirCreated' = TRUE /\ all_ok' = TRUE /\ idx' = 1
            /\ pc' = "loop" /\ UNCHANGED exitStatus
       ELSE /\ exitStatus' = 1 /\ pc' = "done"
            /\ UNCHANGED <<characters, dirCreated, all_ok, idx>>
  /\ UNCHANGED <<template, rawChars, outFiles, palette, cmap, unmapped, size,
                 residual, ok, log, intended, colors, base>>

BuildMap ==
  /\ pc = "loop" /\ idx <= Len(characters)
  /\ palette' = characters[idx]
  /\ cmap' = build_color_map(characters[idx])
  /\ log' = Append(log, [char |-> idx, step |-> "map", ok |-> TRUE])
  /\ pc' = "render"
  /\ UNCHANGED <<template, rawChars, characters, dirCreated, outFiles, idx,
                 unmapped, size, residual, ok, all_ok, exitStatus, intended,
                 colors, base>>

\* generate_sprite(args.template, cmap, out); Image.open of a missing file raises
Render ==
  /\ pc = "render"
  /\ IF CanOpen(template)
       THEN LET r == generate_sprite(template[1], cmap)
            IN  /\ outFiles' = (idx :> r.img) @@ outFiles
                /\ unmapped' = r.unmapped
                /\ size' = r.size
                /\ log' = Append(log, [char |-> idx, step |-> "render",
                                       ok |-> TRUE])
                /\ pc' = "verify" /\ UNCHANGED exitStatus
       ELSE /\ exitStatus' = 1 /\ pc' = "done"
            /\ UNCHANGED <<outFiles, unmapped, size, log>>
  /\ UNCHANGED <<template, rawChars, characters, dirCreated, idx, palette,
                 cmap, residual, ok, all_ok, intended, colors, base>>

\* ok = verify_output(out, cmap); all_ok = all_ok and ok; next character
Verify ==
  /\ pc = "verify"
  /\ LET v == verify_output(outFiles[idx], cmap)
     IN  /\ ok' = v.ok
         /\ residual' = v.residual
         /\ all_ok' = NextAllOk(all_ok, v.ok)
         /\ log' = Append(log, [char |-> idx, step |-> "verify", ok |-> v.ok])
  /\ idx' = idx + 1
  /\ pc' = "loop"
  /\ UNCHANGED <<template, rawChars, characters, dirCreated, outFiles,
                 palette, cmap, unmapped, size, exitStatus, intended, colors,
                 base>>

\* after the loop: fall off the end of main, or sys.exit(1)
ExitCode(a) == IF a THEN 0 ELSE 1

Finish ==
  /\ pc = "loop" /\ idx > Len(characters)
  /\ exitStatus' = ExitCode(all_ok)
  /\ pc' = "done"
  /\ UNCHANGED <<template, rawChars, characters, dirCreated, outFiles, idx,
                 palette, cmap, unmapped, size, residual, ok, all_ok, log,
                 intended, colors, base>>

\* environment: between img.save (line 223) and Image.open (line 229) another
\* process puts a copy of the template at the output path
Overwrite ==
  /\ pc = "verify" /\ outFiles[idx] # template[1]
  /\ outFiles' = [outFiles EXCEPT ![idx] = template[1]]
  /\ UNCHANGED <<pc, template, rawChars, characters, dirCreated, idx, palette,
                 cmap, unmapped, size, residual, ok, all_ok, exitStatus, log,
                 intended, colors, base>>

Next ==
  \/ TemplateMissing \/ TemplateFound \/ CharactersMissing \/ CharactersFound
  \/ Load \/ BuildMap \/ Render \/ Verify \/ Finish

Spec == Init /\ [][Next]_vars

NextEnv == Next \/ Overwrite

SpecEnv == Init /\ [][NextEnv]_vars

-----------------------------------------------------------------------------
(* build_color_map on its own *)

InitMap ==
  /\ pc = "map"
  /\ palette \in MapPalettes
  /\ template = NoFile /\ rawChars = NoFile /\ characters = <<>>
  /\ dirCreated = FALSE /\ outFiles = EmptyMap /\ idx = 0
  /\ cmap = EmptyMap /\ unmapped = {}
  /\ size = <<0, 0>> /\ residual = EmptyMap /\ ok = TRUE /\ all_ok = TRUE
  /\ exitStatus = -1 /\ log = <<>> /\ intended = EmptyMap
  /\ colors = <<>> /\ base = <<>>

MapBuild ==
  /\ pc = "map"
  /\ cmap' = build_color_map(palette)
  /\ pc' = "map_done"
  /\ UNCHANGED <<template, rawChars, characters, dirCreated, outFiles, idx,
                 palette, unmapped, size, residual, ok, all_ok, exitStatus,
                 log, intended, colors, base>>

SpecMap == InitMap /\ [][MapBuild]_vars

-----------------------------------------------------------------------------
(* group_base_hls on its own *)

InitBase ==
  /\ pc = "base"
  /\ colors \in BaseInputs
  /\ template = NoFile /\ rawChars = NoFile /\ characters = <<>>
  /\ dirCreated = FALSE /\ outFiles = EmptyMap /\ idx = 0
  /\ palette = EmptyMap /\ cmap = EmptyMap /\ unmapped = {}
  /\ size = <<0, 0>> /\ residual = EmptyMap /\ ok = TRUE /\ all_ok = TRUE
  /\ exitStatus = -1 /\ log = <<>> /\ intended = EmptyMap
  /\ base = <<>>

BaseCompute ==
  /\ pc = "base"
  /\ base' = group_base_hls(colors)
  /\ pc' = "base_done"
  /\ UNCHANGED <<template, rawChars, characters, dirCreated, outFiles, idx,
                 palette, cmap, unmapped, size, residual, ok, all_ok,
                 exitStatus, log, intended, colors>>

SpecBase == InitBase /\ [][BaseCompute]_vars

-----------------------------------------------------------------------------
(* generate_sprite and verify_output on a given colour map *)

InitSprite ==
  /\ pc = "sprite"
  /\ \/ /\ palette \in SpritePalettes \cup {EmptyMap}
        /\ intended = build_color_map(palette)
        /\ cmap = intended
     \/ /\ palette \in SpritePalettes
        /\ intended = build_color_map(palette)
        /\ \E c \in Range(SRC_GROUPS["hair"]) : cmap = BrokenMap(palette, c)
     \/ /\ palette = EmptyMap
        /\ intended = EmptyMap
        /\ cmap \in ArbitraryMaps
  /\ template \in {File(r) : r \in Rasters}
  /\ rawChars = NoFile /\ characters = <<>>
  /\ dirCreated = FALSE /\ outFiles = EmptyMap /\ idx = 1
  /\ unmapped = {}
  /\ size = <<0, 0>> /\ residual = EmptyMap /\ ok = TRUE /\ all_ok = TRUE
  /\ exitStatus = -1 /\ log = <<>>
  /\ colors = <<>> /\ base = <<>>

SpriteGenerate ==
  /\ pc = "sprite"
  /\ LET r == generate_sprite(template[1], cmap)
     IN  /\ outFiles' = (idx :> r.img) @@ outFiles
         /\ unmapped' = r.unmapped
         /\ size' = r.size
  /\ pc' = "sprite_saved"
  /\ UNCHANGED <<template, rawChars, characters, dirCreated, idx, palette,
                 cmap, residual, ok, all_ok, exitStatus, log, intended,
                 colors, base>>

\* verify_output with the map the image was rendered with
SpriteVerify ==
  /\ pc = "sprite_saved"
  /\ LET v == verify_output(outFiles[idx], cmap)
     IN  ok' = v.ok /\ residual' = v.residual
  /\ pc' = "sprite_verified"
  /\ UNCHANGED <<template, rawChars, characters, dirCreated, outFiles, idx,
                 palette, cmap, unmapped, size, all_ok, exitStatus, log,
                 intended, colors, base>>

\* verify_output with the map the palette asks for
SpriteVerifyIntended ==
  /\ pc = "sprite_saved"
  /\ LET v == verify_output(outFiles[idx], intended)
     IN  ok' = v.ok /\ residual' = v.residual
  /\ pc' = "sprite_verified_intended"
  /\ UNCHANGED <<template, rawChars, characters, dirCreated, outFiles, idx,
                 palette, cmap, unmapped, size, all_ok, exitStatus, log,
                 intended, colors, base>>

NextSprite == SpriteGenerate \/ SpriteVerify \/ SpriteVerifyIntended

SpecSprite == InitSprite /\ [][NextSprite]_vars

-----------------------------------------------------------------------------
(* Properties *)

AllGroups ==
  {"hair", "shirt", "pants", "skin", "shoes", "eyes", "outline", "accessory"}
PaletteGroups == {"hair", "eyes", "skin", "shirt", "pants", "shoes"}

\* C1: for any palette, the empty one included, the map build_color_map
\* returns has an entry for every colour of each of the eight groups.
C1_Coverage ==
  pc = "map_done" =>
    \A g \in AllGroups : \A c \in Range(SRC_GROUPS[g]) : c \in DOMAIN cmap

C1_Witness ==
  /\ pc = "map_done"
  /\ palette = EmptyMap
  /\ Cardinality(DOMAIN cmap) = 31

\* C2: whatever keys and values the palette holds, build_color_map maps
\* every colour of the outline and accessory groups to itself.
C2_IdentityGroups ==
  pc = "map_done" =>
    \A g \in {"outline", "accessory"} : \A c \in Range(SRC_GROUPS[g]) :
      c \in DOMAIN cmap /\ cmap[c] = c

C2_Witness ==
  /\ pc = "map_done"
  /\ {"outline", "hair", "shoes"} \subseteq DOMAIN palette
  /\ palette["outline"] # <<0, 0, 0>>
  /\ cmap[<<0, 0, 0>>] = <<0, 0, 0>>
  /\ cmap[<<57, 22, 36>>] # <<57, 22, 36>>

\* C3: every group among hair, eyes, skin, shirt, pants, shoes that the
\* palette does not hold keeps each of its colours (white for eyes),
\* whichever other groups the palette holds.
C3_AbsentGroupIdentity ==
  pc = "map_done" =>
    \A g \in PaletteGroups \ DOMAIN palette : \A c \in Range(SRC_GROUPS[g]) :
      c \in DOMAIN cmap /\ cmap[c] = c

C3_Witness ==
  /\ pc = "map_done"
  /\ DOMAIN palette = {"hair", "skin", "outline"}
  /\ cmap[<<255, 255, 255>>] = <<255, 255, 255>>
  /\ cmap[<<7, 28, 46>>] = <<7, 28, 46>>
  /\ cmap[<<57, 22, 36>>] # <<57, 22, 36>>

Rendered == pc \in {"sprite_saved", "sprite_verified", "sprite_verified_intended"}

\* C4: the image generate_sprite saves has the template's dimensions, every
\* pixel keeps the template's alpha, and a pixel of alpha 0 keeps its RGB,
\* also when that RGB is a key of the colour map.
C4_AlphaPreserved ==
  Rendered =>
    LET tpl == template[1]
        out == outFiles[idx]
    IN  /\ out.w = tpl.w /\ out.h = tpl.h
        /\ size = <<tpl.w, tpl.h>>
        /\ DOMAIN out.px = DOMAIN tpl.px
        /\ \A q \in DOMAIN tpl.px :
             /\ out.px[q][4] = tpl.px[q][4]
             /\ tpl.px[q][4] = 0 => out.px[q] = tpl.px[q]

C4_Witness ==
  /\ pc = "sprite_saved"
  /\ \E q \in DOMAIN template[1].px :
       LET p == template[1].px[q]
       IN  /\ p[4] = 0 /\ Key(p) \in DOMAIN cmap /\ cmap[Key(p)] # Key(p)
           /\ outFiles[idx].px[q] = p
  /\ \E q \in DOMAIN template[1].px :
       /\ template[1].px[q][4] = 128
       /\ Key(outFiles[idx].px[q]) # Key(template[1].px[q])
       /\ outFiles[idx].px[q][4] = 128

\* C5: an opaque pixel whose RGB is no key of the colour map keeps its RGB
\* and its colour is in the unmapped set; the unmapped set holds exactly the
\* colours of such pixels; every other opaque pixel is still remapped and
\* the image is saved.
C5_UnmappedKept ==
  Rendered =>
    LET tpl == template[1]
        out == outFiles[idx]
        un == {q \in DOMAIN tpl.px :
                 tpl.px[q][4] # 0 /\ Key(tpl.px[q]) \notin DOMAIN cmap}
    IN  /\ idx \in DOMAIN outFiles
        /\ \A q \in un : out.px[q] = tpl.px[q] /\ Key(tpl.px[q]) \in unmapped
        /\ unmapped = {Key(tpl.px[q]) : q \in un}
        /\ \A q \in DOMAIN tpl.px :
             (tpl.px[q][4] # 0 /\ Key(tpl.px[q]) \in DOMAIN cmap) =>
               /\ Key(out.px[q]) = cmap[Key(tpl.px[q])]
               /\ out.px[q][4] = tpl.px[q][4]

C5_Witness ==
  /\ pc = "sprite_saved"
  /\ template[1].w = 2
  /\ template[1].px[<<0, 0>>] = <<1, 2, 3, 128>>
  /\ unmapped = {<<1, 2, 3>>}
  /\ outFiles[idx].px[<<0, 0>>] = <<1, 2, 3, 128>>
  /\ template[1].px[<<1, 0>>] = <<57, 22, 36, 255>>
  /\ outFiles[idx].px[<<1, 0>>] = <<0, 255, 0, 255>>

\* number of opaque pixels of colour c in raster r
OpaqueCount(r, c) ==
  Cardinality({q \in DOMAIN r.px : r.px[q][4] # 0 /\ Key(r.px[q]) = c})

\* cmap keeps hair colour c although the map the palette asks for changes c
BrokenAt(c) ==
  /\ "hair" \in DOMAIN palette
  /\ c \in Range(SRC_GROUPS["hair"])
  /\ intended = build_color_map(palette)
  /\ intended[c] # c
  /\ cmap = [intended EXCEPT ![c] = c]

\* c is the target of no colour the map m changes
NotATarget(m, c) ==
  \A g \in PaletteGroups : \A x \in Range(SRC_GROUPS[g]) :
    m[x] # x => m[x] # c

\* C6 as claimed: verify_output on the image rendered with a map broken at
\* hair colour c returns False and names c with the number of opaque
\* template pixels of colour c.
C6_Original ==
  \A c \in Range(SRC_GROUPS["hair"]) :
    (/\ pc = "sprite_verified" /\ BrokenAt(c) /\ palette["hair"] # c
     /\ OpaqueCount(template[1], c) > 0)
      => /\ ok = FALSE
         /\ c \in DOMAIN residual
         /\ residual[c] = OpaqueCount(template[1], c)

\* C6 amended: given the broken map itself, verify_output never names c;
\* given the map the palette asks for, it returns False and names c with the
\* number of opaque template pixels of colour c, when c is the target of no
\* colour that map changes.
C6_BrokenMapVerify ==
  \A c \in Range(SRC_GROUPS["hair"]) :
    /\ (pc = "sprite_verified" /\ BrokenAt(c)) => c \notin DOMAIN residual
    /\ (/\ pc = "sprite_verified_intended" /\ BrokenAt(c)
        /\ NotATarget(intended, c) /\ OpaqueCount(template[1], c) > 0)
         => /\ ok = FALSE
            /\ c \in DOMAIN residual
            /\ residual[c] = OpaqueCount(template[1], c)

C6_Witness ==
  /\ pc = "sprite_verified_intended"
  /\ BrokenAt(<<57, 22, 36>>)
  /\ OpaqueCount(template[1], <<57, 22, 36>>) = 2
  /\ ok = FALSE
  /\ residual = (<<57, 22, 36>> :> 2)

C6_WitnessSameMap ==
  /\ pc = "sprite_verified"
  /\ BrokenAt(<<57, 22, 36>>)
  /\ OpaqueCount(template[1], <<57, 22, 36>>) = 2
  /\ ok = TRUE

\* the steps main has logged for character i
StepsOf(i) == SelectSeq(log, LAMBDA e : e.char = i)
VerifyFailed == \E k \in 1..Len(log) : log[k].step = "verify" /\ ~log[k].ok
InputsPresent == Len(template) = 1 /\ Len(rawChars) = 1

\* C7: a failed verify_output stops nothing: at the end of main every
\* character has had its map built, its sprite rendered and written and its
\* output verified, in this order; the exit status is 1 if some verification
\* failed and 0 only if all passed; no exit happens inside the loop.
C7_FailureDoesNotHalt ==
  /\ (pc # "done") => exitStatus = -1
  /\ (pc = "done" /\ InputsPresent) =>
       /\ \A i \in 1..Len(rawChars[1]) :
            /\ i \in DOMAIN outFiles
            /\ Len(StepsOf(i)) = 3
            /\ StepsOf(i)[1].step = "map"
            /\ StepsOf(i)[2].step = "render"
            /\ StepsOf(i)[3].step = "verify"
       /\ Len(log) = 3 * Len(rawChars[1])
       /\ exitStatus = (IF VerifyFailed THEN 1 ELSE 0)

C7_Witness ==
  /\ pc = "done"
  /\ Len(characters) = 2
  /\ log[3].step = "verify" /\ ~log[3].ok
  /\ log[6].step = "verify" /\ log[6].ok
  /\ 2 \in DOMAIN outFiles
  /\ exitStatus = 1

\* C8: with the template or the character file missing, main ends with
\* status 1 before the output directory is created, before any colour map is
\* built and before any file is written; no character is processed.
C8_MissingInputHalts ==
  ~InputsPresent =>
    /\ pc \in {"start", "check_characters", "done"}
    /\ (pc = "check_characters" => Len(template) = 1)
    /\ (pc = "done" => exitStatus = 1)
    /\ dirCreated = FALSE
    /\ outFiles = EmptyMap
    /\ characters = <<>> /\ cmap = EmptyMap /\ log = <<>>

C8_Witness ==
  /\ pc = "done"
  /\ Len(template) = 1 /\ Len(rawChars) = 0
  /\ exitStatus = 1
  /\ dirCreated = FALSE

C8_WitnessTemplate ==
  /\ pc = "done"
  /\ Len(template) = 0 /\ Len(rawChars) = 1 /\ Len(rawChars[1]) = 2
  /\ exitStatus = 1

\* base is the element at 1-based position k of the stable ascending sort of
\* colors by lightness
IsAtPosition(k) ==
  \E j \in 1..Len(colors) :
    /\ base = rgb_to_hls(colors[j])
    /\ Cardinality({i \in 1..Len(colors) :
         \/ QLt(rgb_to_hls(colors[i])[2], rgb_to_hls(colors[j])[2])
         \/ /\ rgb_to_hls(colors[i])[2] = rgb_to_hls(colors[j])[2]
            /\ i < j}) = k - 1

\* C9 as claimed: group_base_hls returns the lower median, the element at
\* position n/2 for even n (the middle one for odd n).
C9_Original ==
  pc = "base_done" =>
    IsAtPosition(IF Len(colors) % 2 = 0 THEN Len(colors) \div 2
                 ELSE (Len(colors) + 1) \div 2)

\* C9 amended: group_base_hls returns the element at position n div 2 + 1
\* (1-based) of the lightness-ascending order: the middle one for odd n, the
\* upper median for even n (the third-darkest of a 4-colour group).
C9_UpperMedian ==
  pc = "base_done" => IsAtPosition(Len(colors) \div 2 + 1)

C9_Witness ==
  /\ pc = "base_done"
  /\ colors = SRC_GROUPS["shirt"]
  /\ base = rgb_to_hls(<<17, 73, 120>>)
  /\ base # rgb_to_hls(<<15, 64, 106>>)

\* C10: verify_output on the image generate_sprite made with the map of
\* build_color_map, given that same map, finds no residual colour; in main
\* all_ok stays true and the exit after the loop is never the failing one.
C10_VerifyNeverFails ==
  /\ all_ok = TRUE /\ ok = TRUE /\ residual = EmptyMap
  /\ ~VerifyFailed
  /\ (pc = "done" /\ InputsPresent) => exitStatus = 0

C10_Witness ==
  /\ pc = "done"
  /\ exitStatus = 0
  /\ Len(characters) = 2
  /\ "hair" \in DOMAIN characters[2]
  /\ characters[2]["hair"] = <<50, 25, 29>>
  /\ template[1].px[<<0, 0>>] = <<57, 22, 36, 255>>
  /\ outFiles[2].px[<<0, 0>>] = <<50, 25, 29, 255>>
  /\ Len(log) = 6

====
